---- MODULE Spec2Model ----
(***************************************************************************)
(* A model of tools/finalize_sdk.py: the script that fetches the mainline  *)
(* module SDK archives of a build, extracts them into the module prebuilt  *)
(* repositories, projects the API files into prebuilts/sdk/extensions/<n>  *)
(* and commits the result.                                                 *)
(*                                                                         *)
(* Python strings are sequences of one-character strings, so that `in`,    *)
(* str.replace, str.startswith and the pathlib name/stem/suffix split are  *)
(* computed character by character.  A pathlib.Path is the sequence of its *)
(* parts; an absolute path starts with the part "/".                       *)
(***************************************************************************)
EXTENDS Integers, Sequences, FiniteSets, TLC

(***************************************************************************)
(* String literals of the script.                                          *)
(***************************************************************************)
TMP_PREFIX ==
    <<"/","t","m","p","/">>
COMPAT_REPO_STR ==
    <<"p","r","e","b","u","i","l","t","s","/","s","d","k">>
COMPAT_README_STR ==
    <<"e","x","t","e","n","s","i","o","n","s","/","R","E","A","D","M","E",".","m","d">>
EXTENSIONS_PREFIX ==
    <<"e","x","t","e","n","s","i","o","n","s","/">>
BUILD_SOONG ==
    <<"b","u","i","l","d","/","s","o","o","n","g">>
TEST_EXPORTS ==
    <<"t","e","s","t","-","e","x","p","o","r","t","s">>
HOST_EXPORTS ==
    <<"h","o","s","t","-","e","x","p","o","r","t","s">>
ART_API ==
    <<"a","r","t",".","m","o","d","u","l","e",".","p","u","b","l","i","c",".","a","p","i">>
ART ==
    <<"a","r","t">>
CONSCRYPT_API ==
    <<"c","o","n","s","c","r","y","p","t",".","m","o","d","u","l","e",".","p","u","b","l","i","c",".","a","p","i">>
CONSCRYPT ==
    <<"c","o","n","s","c","r","y","p","t">>
STUBS ==
    <<"-","s","t","u","b","s">>
BAD_INTRA ==
    <<"c","o","n","s","c","r","y","p","t",".","m","o","d","u","l","e",".","i","n","t","r","a",".","c","o","r","e",".","a","p","i">>
BAD_PLATFORM ==
    <<"c","o","n","s","c","r","y","p","t",".","m","o","d","u","l","e",".","p","l","a","t","f","o","r","m",".","a","p","i">>
ANDROID_BP ==
    <<"A","n","d","r","o","i","d",".","b","p">>
ANDROID_BP_AUTO ==
    <<"A","n","d","r","o","i","d",".","b","p",".","a","u","t","o">>
SDK_LIBRARY ==
    <<"s","d","k","_","l","i","b","r","a","r","y">>
TXT ==
    <<".","t","x","t">>
JAR ==
    <<".","j","a","r">>
API ==
    <<"a","p","i">>
EMPTY ==
    <<>>

(***************************************************************************)
(* Python str operations.                                                  *)
(***************************************************************************)
\* old in s
IsSubstr(old, s) ==
    \E i \in 0..(Len(s) - Len(old)) : SubSeq(s, i + 1, i + Len(old)) = old

\* s.startswith(p)
StartsWith(s, p) ==
    Len(p) <= Len(s) /\ SubSeq(s, 1, Len(p)) = p

\* s.endswith(p)
EndsWith(s, p) ==
    Len(p) <= Len(s) /\ SubSeq(s, Len(s) - Len(p) + 1, Len(s)) = p

\* s.replace(old, new), old not empty: the occurrences are found left to
\* right and do not overlap; the replacement text is not scanned again.
RECURSIVE Replace(_, _, _)
Replace(s, old, new) ==
    IF Len(s) < Len(old) THEN s
    ELSE IF SubSeq(s, 1, Len(old)) = old
         THEN new \o Replace(SubSeq(s, Len(old) + 1, Len(s)), old, new)
         ELSE <<Head(s)>> \o Replace(Tail(s), old, new)

DIGITS ==
    <<"0","1","2","3","4","5","6","7","8","9">>

RECURSIVE NatToStr(_)
NatToStr(n) ==
    IF n < 10 THEN <<DIGITS[n + 1]>>
    ELSE NatToStr(n \div 10) \o <<DIGITS[(n % 10) + 1]>>

\* str(n) and '%d' % n of an int
IntToStr(n) ==
    IF n < 0 THEN <<"-">> \o NatToStr(0 - n) ELSE NatToStr(n)

\* os.path.join(a, b) on POSIX
OsPathJoin(a, b) ==
    IF StartsWith(b, <<"/">>) THEN b
    ELSE IF a = EMPTY \/ EndsWith(a, <<"/">>) THEN a \o b
    ELSE a \o <<"/">> \o b

(***************************************************************************)
(* pathlib.PurePosixPath.                                                  *)
(***************************************************************************)
RECURSIVE SplitSlash(_, _)
\* s.split('/'), cur the piece being read
SplitSlash(s, cur) ==
    IF s = EMPTY THEN <<cur>>
    ELSE IF Head(s) = "/" THEN <<cur>> \o SplitSlash(Tail(s), EMPTY)
    ELSE SplitSlash(Tail(s), Append(cur, Head(s)))

RECURSIVE DropEmptyAndDot(_)
DropEmptyAndDot(parts) ==
    IF parts = <<>> THEN <<>>
    ELSE IF Head(parts) = EMPTY \/ Head(parts) = <<".">>
         THEN DropEmptyAndDot(Tail(parts))
         ELSE <<Head(parts)>> \o DropEmptyAndDot(Tail(parts))

\* Path(s).parts: a leading "/" is the root (exactly two leading slashes are
\* the root "//"), empty and "." pieces are dropped, ".." is kept.
PathOf(s) ==
    LET root == IF ~StartsWith(s, <<"/">>) THEN <<>>
                ELSE IF StartsWith(s, <<"/","/">>) /\ ~StartsWith(s, <<"/","/","/">>)
                     THEN << <<"/","/">> >>
                     ELSE << <<"/">> >>
    IN  root \o DropEmptyAndDot(SplitSlash(s, EMPTY))

IsAbsolute(p) ==
    p # <<>> /\ Head(p[1]) = "/"

\* p.joinpath(q), p / q: an absolute q replaces p
JoinPath(p, q) ==
    IF IsAbsolute(q) THEN q ELSE p \o q

\* q.relative_to(p), defined when p is a prefix of q
RelativeTo(q, p) ==
    SubSeq(q, Len(p) + 1, Len(q))

IsPrefix(p, q) ==
    Len(p) <= Len(q) /\ SubSeq(q, 1, Len(p)) = p

\* name.rfind('.') + 1, 0 when there is no dot
RFindDot(name) ==
    LET dots == {i \in 1..Len(name) : name[i] = "."}
    IN  IF dots = {} THEN 0 ELSE CHOOSE i \in dots : \A j \in dots : j <= i

\* Path.suffix of a file name
Suffix(name) ==
    LET i == RFindDot(name)
    IN  IF 1 < i /\ i < Len(name) THEN SubSeq(name, i, Len(name)) ELSE EMPTY

\* Path.stem of a file name
Stem(name) ==
    LET i == RFindDot(name)
    IN  IF 1 < i /\ i < Len(name) THEN SubSeq(name, 1, i - 1) ELSE name

Name(p) ==
    p[Len(p)]

\* Path.with_stem(stem) is with_name(stem + suffix)
WithStem(p, stem) ==
    SubSeq(p, 1, Len(p) - 1) \o <<stem \o Suffix(Name(p))>>

\* with_name raises ValueError for these names
ValidName(n) ==
    n # EMPTY /\ n # <<".">> /\ ~IsSubstr(<<"/">>, n)

(***************************************************************************)
(* The helper functions of the script.                                     *)
(***************************************************************************)
RECURSIVE FirstMatch(_, _, _)
\* the for loop of repo_for_sdk from entry i on: the index of the first
\* entry whose sdk_name is in sdk_filename, 0 when the loop runs out
FirstMatch(sdk_filename, mainline_modules_info, i) ==
    IF i > Len(mainline_modules_info) THEN 0
    ELSE IF IsSubstr(mainline_modules_info[i].sdk_name, sdk_filename) THEN i
    ELSE FirstMatch(sdk_filename, mainline_modules_info, i + 1)

RECURSIVE LastMatch(_, _, _)
LastMatch(sdk_filename, mainline_modules_info, i) ==
    IF i < 1 THEN 0
    ELSE IF IsSubstr(mainline_modules_info[i].sdk_name, sdk_filename) THEN i
    ELSE LastMatch(sdk_filename, mainline_modules_info, i - 1)

\* a repo_for_sdk that keeps scanning and returns the last match
repo_for_sdk_last(sdk_filename, mainline_modules_info, gantry_mode) ==
    LET i == LastMatch(sdk_filename, mainline_modules_info, Len(mainline_modules_info))
        project_path == IF gantry_mode
                        THEN TMP_PREFIX \o mainline_modules_info[i].module_sdk_project
                        ELSE mainline_modules_info[i].module_sdk_project
    IN  IF i = 0 THEN [failed |-> TRUE, module |-> 0, path |-> <<>>]
        ELSE [failed |-> FALSE, module |-> i, path |-> PathOf(project_path)]

\* a repo_for_sdk that takes the first entry when no entry matches
repo_for_sdk_default(sdk_filename, mainline_modules_info, gantry_mode) ==
    LET m == FirstMatch(sdk_filename, mainline_modules_info, 1)
        i == IF m = 0 THEN 1 ELSE m
        project_path == IF gantry_mode
                        THEN TMP_PREFIX \o mainline_modules_info[i].module_sdk_project
                        ELSE mainline_modules_info[i].module_sdk_project
    IN  [failed |-> FALSE, module |-> i, path |-> PathOf(project_path)]

\* repo_for_sdk: failed is the call of fail(), path the Path returned, module
\* the entry it was taken from
repo_for_sdk(sdk_filename, mainline_modules_info, gantry_mode) ==
    LET i == FirstMatch(sdk_filename, mainline_modules_info, 1)
        project_path == IF gantry_mode
                        THEN TMP_PREFIX \o mainline_modules_info[i].module_sdk_project
                        ELSE mainline_modules_info[i].module_sdk_project
    IN  IF i = 0 THEN [failed |-> TRUE, module |-> 0, path |-> <<>>]
        ELSE [failed |-> FALSE, module |-> i, path |-> PathOf(project_path)]

\* a dir_for_sdk that tests 'host-exports' before 'test-exports'
dir_for_sdk_host_first(filename, version) ==
    LET base == IntToStr(version)
    IN  IF IsSubstr(HOST_EXPORTS, filename) THEN OsPathJoin(base, HOST_EXPORTS)
        ELSE IF IsSubstr(TEST_EXPORTS, filename) THEN OsPathJoin(base, TEST_EXPORTS)
        ELSE base

dir_for_sdk(filename, version) ==
    LET base == IntToStr(version)
    IN  IF IsSubstr(TEST_EXPORTS, filename) THEN OsPathJoin(base, TEST_EXPORTS)
        ELSE IF IsSubstr(HOST_EXPORTS, filename) THEN OsPathJoin(base, HOST_EXPORTS)
        ELSE base

bad_stem_prefixes ==
    {BAD_INTRA, BAD_PLATFORM}

\* is_ignored(file), file a Path
is_ignored(file) ==
    \E p \in bad_stem_prefixes : StartsWith(Stem(Name(file)), p)

\* a rewriting that forgets the '-stubs' rule
TweakStemNoStubs(stem) ==
    Replace(Replace(stem, ART_API, ART), CONSCRYPT_API, CONSCRYPT)

\* the three replacements of maybe_tweak_compat_stem on the stem
TweakStem(stem) ==
    Replace(Replace(Replace(stem, ART_API, ART), CONSCRYPT_API, CONSCRYPT), STUBS, EMPTY)

\* maybe_tweak_compat_stem(file), file a Path
maybe_tweak_compat_stem(file) ==
    WithStem(file, TweakStem(Stem(Name(file))))

(***************************************************************************)
(* The file system: files maps the path of each regular file to its        *)
(* content, dirs is the set of directories.  Relative paths are relative   *)
(* to the working directory of the run.                                    *)
(***************************************************************************)
Ancestors(p) ==
    {SubSeq(p, 1, k) : k \in 1..Len(p)}

Parent(p) ==
    SubSeq(p, 1, Len(p) - 1)

\* the files at or below directory p, by their path relative to p
Tree(fs, p) ==
    LET below == {q \in DOMAIN fs.files : IsPrefix(p, q) /\ q # p}
    IN  [r \in {RelativeTo(q, p) : q \in below} |-> fs.files[p \o r]]

\* shutil.rmtree(p)
RmTree(fs, p) ==
    [files |-> [q \in {x \in DOMAIN fs.files : ~IsPrefix(p, x)} |-> fs.files[q]],
     dirs  |-> {d \in fs.dirs : ~IsPrefix(p, d)}]

\* os.makedirs(p, exist_ok = True)
MakeDirs(fs, p) ==
    [fs EXCEPT !.dirs = @ \cup Ancestors(p)]

\* writing content c to the file p, replacing what was there
WriteFile(fs, p, c) ==
    [fs EXCEPT !.files = (p :> c) @@ @]

\* ZipFile.extractall(target): every member is written below target, its
\* parent directories created as needed
ExtractAll(fs, members, target) ==
    [files |-> [q \in {target \o m : m \in DOMAIN members} |->
                    members[RelativeTo(q, target)]] @@ fs.files,
     dirs  |-> fs.dirs \cup UNION {Ancestors(Parent(target \o m)) : m \in DOMAIN members}]

\* shutil.move(src, dst) of a regular file: into dst when dst is a
\* directory, else a rename that replaces dst
Move(fs, src, dst) ==
    LET real_dst == IF dst \in fs.dirs THEN dst \o <<Name(src)>> ELSE dst
        c == fs.files[src]
    IN  [fs EXCEPT !.files = (real_dst :> c) @@
                        [q \in (DOMAIN fs.files) \ {src} |-> fs.files[q]]]

\* shutil.copy(src, dst) of a regular file
Copy(fs, src, dst) ==
    LET real_dst == IF dst \in fs.dirs THEN dst \o <<Name(src)>> ELSE dst
    IN  WriteFile(fs, real_dst, fs.files[src])

Hidden(name) ==
    StartsWith(name, <<".">>)

\* glob.glob(os.path.join(target_dir, 'sdk_library/*/*' + ext)): a * matches
\* no name that starts with a dot
Glob(fs, target_dir, ext) ==
    {p \in DOMAIN fs.files :
        /\ Len(p) = Len(target_dir) + 3
        /\ IsPrefix(target_dir, p)
        /\ p[Len(target_dir) + 1] = SDK_LIBRARY
        /\ ~Hidden(p[Len(target_dir) + 2])
        /\ ~Hidden(Name(p))
        /\ EndsWith(Name(p), ext)}

\* the orders in which a directory listing may hand out the elements of S
Orderings(S) ==
    {s \in [1..Cardinality(S) -> S] : \A i, j \in 1..Cardinality(S) : s[i] = s[j] => i = j}

(***************************************************************************)
(* The inputs of a run: the build's archives and manifests, the command    *)
(* line, and what the working directory holds before the run.              *)
(***************************************************************************)
A_FOO_NAME ==
    <<"f","o","o","-","s","d","k","-","c","u","r","r","e","n","t",".","z","i","p">>
A_FOO_TEST_NAME ==
    <<"f","o","o","-","s","d","k","-","t","e","s","t","-","e","x","p","o","r","t","s","-","c","u","r","r","e","n","t",".","z","i","p">>
A_BAR_NAME ==
    <<"b","a","r","-","h","o","s","t","-","e","x","p","o","r","t","s",".","z","i","p">>
SDK_FOO ==
    <<"f","o","o","-","s","d","k">>
SDK_FOO_SHORT ==
    <<"f","o","o">>
SDK_BAR ==
    <<"b","a","r">>
P_FOO ==
    <<"p","r","e","b","u","i","l","t","s","/","m","o","d","u","l","e","_","s","d","k","/","F","o","o">>
P_BAR ==
    <<"p","r","e","b","u","i","l","t","s","/","m","o","d","u","l","e","_","s","d","k","/","B","a","r","/">>
N_FOO_TXT ==
    <<"f","o","o",".","t","x","t">>
N_FOO_STUBS_JAR ==
    <<"f","o","o","-","s","t","u","b","s",".","j","a","r">>
N_FOO_JAR ==
    <<"f","o","o",".","j","a","r">>
N_ART_TXT ==
    <<"a","r","t",".","m","o","d","u","l","e",".","p","u","b","l","i","c",".","a","p","i",".","t","x","t">>
N_PLATFORM_TXT ==
    <<"c","o","n","s","c","r","y","p","t",".","m","o","d","u","l","e",".","p","l","a","t","f","o","r","m",".","a","p","i",".","t","x","t">>
N_INTRA_JAR ==
    <<"c","o","n","s","c","r","y","p","t",".","m","o","d","u","l","e",".","i","n","t","r","a",".","c","o","r","e",".","a","p","i","-","s","t","u","b","s",".","j","a","r">>
N_HIDDEN_TXT ==
    <<".","h","i","d","d","e","n",".","t","x","t">>
N_NOTICE ==
    <<"N","O","T","I","C","E",".","t","x","t">>
N_LIB ==
    <<"l","i","b",".","j","a","r">>
N_OLD_TXT ==
    <<"o","l","d",".","t","x","t">>
JAVA ==
    <<"j","a","v","a">>
PUBLIC ==
    <<"p","u","b","l","i","c">>
SYSTEM ==
    <<"s","y","s","t","e","m">>
README_TEXT ==
    <<"n","o","t","e","s">>

\* The *.zip files of the build: the file name and the members (path in the
\* archive |-> content).  Every archive carries an Android.bp, as every SDK
\* snapshot the build emits does.
ARCHIVES ==
    << [name |-> A_FOO_NAME,
        members |-> (<<ANDROID_BP>> :> "foo/Android.bp")
                 @@ (<<SDK_LIBRARY, PUBLIC, N_FOO_TXT>> :> "foo/public/foo.txt")
                 @@ (<<SDK_LIBRARY, PUBLIC, N_FOO_STUBS_JAR>> :> "foo/public/foo-stubs.jar")
                 @@ (<<SDK_LIBRARY, PUBLIC, N_PLATFORM_TXT>> :> "foo/public/platform.txt")],
       [name |-> A_FOO_TEST_NAME,
        members |-> (<<ANDROID_BP>> :> "test/Android.bp")
                 @@ (<<ANDROID_BP_AUTO>> :> "test/Android.bp.auto")
                 @@ (<<SDK_LIBRARY, SYSTEM, N_ART_TXT>> :> "test/system/art.txt")
                 @@ (<<SDK_LIBRARY, PUBLIC, N_FOO_JAR>> :> "test/public/foo.jar")
                 @@ (<<SDK_LIBRARY, PUBLIC, N_HIDDEN_TXT>> :> "test/public/.hidden.txt")],
       [name |-> A_BAR_NAME,
        members |-> (<<ANDROID_BP>> :> "bar/Android.bp")
                 @@ (<<JAVA, N_LIB>> :> "bar/java/lib.jar")
                 @@ (<<SDK_LIBRARY, N_NOTICE>> :> "bar/NOTICE.txt")
                 @@ (<<SDK_LIBRARY, SYSTEM, N_INTRA_JAR>> :> "bar/system/intra.jar")] >>

\* mainline-modules-info.json as json.load returns it: the entries in the
\* order of the document.  In the second one two sdk_names are substrings
\* of the foo archives' names and none is one of the bar archive's.
MANIFESTS ==
    { << [module |-> "foo", sdk_name |-> SDK_FOO, module_sdk_project |-> P_FOO],
         [module |-> "bar", sdk_name |-> SDK_BAR, module_sdk_project |-> P_BAR] >>,
      << [module |-> "foo", sdk_name |-> SDK_FOO, module_sdk_project |-> P_FOO],
         [module |-> "foo2", sdk_name |-> SDK_FOO_SHORT, module_sdk_project |-> P_BAR] >> }

\* the archives the pattern .../current/<module_name>/sdk/*.zip names
ArtifactsOf(module_name) ==
    CASE module_name = "*" -> {1, 2, 3}
      [] module_name = "foo" -> {1, 2}
      [] module_name = "bar" -> {3}

\* the longest list of -m options of a run
MaxModules ==
    2

\* args.modules: None (the empty list here) or the -m options in order;
\* the lists taken are the ones that alternate between the two modules
ModuleLists ==
    {l \in UNION {[1..n -> {"foo", "bar"}] : n \in 0..MaxModules} :
        \A i \in 1..(Len(l) - 1) : l[i] # l[i + 1]}

Versions ==
    {5}

\* COMPAT_REPO, which line 162 moves below /tmp/ in gantry mode
COMPAT_REPO(gantry_mode) ==
    IF gantry_mode
    THEN JoinPath(PathOf(TMP_PREFIX), PathOf(COMPAT_REPO_STR))
    ELSE PathOf(COMPAT_REPO_STR)

COMPAT_README ==
    PathOf(COMPAT_README_STR)

\* compat_dir of line 163
CompatDir(a) ==
    JoinPath(COMPAT_REPO(a.gantry_mode),
             PathOf(EXTENSIONS_PREFIX \o IntToStr(a.finalize_sdk)))

\* What the working directory (and /tmp) hold before the run: the checkout
\* with its README directory; with in_tree, build/soong; with prior, the
\* results of an earlier finalisation of the same version.
InitialFs(version, in_tree, prior) ==
    LET v == IntToStr(version)
        roots == {<<>>, PathOf(TMP_PREFIX)}
        old == UNION {
            { <<r \o PathOf(COMPAT_REPO_STR) \o PathOf(EXTENSIONS_PREFIX \o v)
                  \o <<PUBLIC, API, N_OLD_TXT>>, "old/api">>,
              <<r \o PathOf(COMPAT_REPO_STR) \o PathOf(EXTENSIONS_PREFIX \o v)
                  \o <<SYSTEM, N_FOO_JAR>>, "old/jar">>,
              <<r \o PathOf(P_FOO) \o <<v, N_OLD_TXT>>, "old/foo">>,
              <<r \o PathOf(P_FOO) \o <<v, TEST_EXPORTS, N_OLD_TXT>>, "old/test">>,
              <<r \o PathOf(P_BAR) \o <<v, HOST_EXPORTS, SDK_LIBRARY, PUBLIC, N_OLD_TXT>>,
                "old/bar">> } : r \in roots}
        files == IF prior THEN [p \in {x[1] : x \in old} |->
                                   (CHOOSE x \in old : x[1] = p)[2]]
                 ELSE [p \in {} |-> ""]
    IN  [files |-> files,
         dirs  |-> UNION {Ancestors(Parent(p)) : p \in DOMAIN files}
                   \cup Ancestors(Parent(PathOf(COMPAT_REPO_STR) \o COMPAT_README))
                   \cup Ancestors(PathOf(TMP_PREFIX))
                   \cup (IF in_tree THEN Ancestors(PathOf(BUILD_SOONG)) ELSE {})]

(***************************************************************************)
(* The state of a run.                                                     *)
(***************************************************************************)
VARIABLES
    pc,                     \* the statement the script is at
    args,                   \* the parsed command line
    fs,                     \* the file system
    readme,                 \* the lines appended to COMPAT_REPO / COMPAT_README
    mainline_modules_info,  \* the manifest, once loaded
    module_names,           \* the modules the outer loop has still to fetch
    tmpdir,                 \* the archives tmpdir.iterdir() has still to yield
    loc,                    \* f, repo, dir and target_dir of the loop body
    src_files,              \* the src_files the inner loop has still to copy
    created_dirs,           \* the defaultdict(set), keys in insertion order
    commit_i,               \* the position of the commit loop in created_dirs
    gitlog,                 \* the repo and git commands run, in order
    exit_status,            \* the exit status, -1 while the script runs
    stderr,                 \* the lines written to the error stream
    cause,                  \* the fatal condition met, "none" if none
    fetched,                \* the retrievals attempted, in order
    rmlog,                  \* the directories removed with rmtree, in order
    copied,                 \* the copies made into the compatibility tree
    processed,              \* the archives extracted, in order
    snap,                   \* archive |-> its directory after its first extraction
    init_fs,                \* the file system before the run
    call,                   \* the arguments of a helper called on its own
    ret                     \* what that helper returned

vars ==
    <<pc, args, fs, readme, mainline_modules_info, module_names, tmpdir, loc,
      src_files, created_dirs, commit_i, gitlog, exit_status, stderr, cause,
      fetched, rmlog, copied, processed, snap, init_fs, call, ret>>

MSG_SOURCE_TREE ==
    "This script must be run from the top of an Android source tree."
MSG_MODULES_INFO ==
    "FAIL: Unable to retrieve mainline-modules-info.json artifact"
MSG_ARTIFACT ==
    "FAIL: Unable to retrieve sdk artifact"
MSG_NO_MAPPING ==
    "has no valid mapping to any mainline module."
MSG_CHANGE_ID ==
    "FAIL: Unable to find change_id of the last commit."
TRACEBACK ==
    "Traceback (most recent call last)"

\* a fail() that prints and exits with status 0
fail_status_0(msg) ==
    [pc |-> "exited", exit_status |-> 0, stderr |-> <<msg>>]

\* fail(): the message goes to sys.stderr and the script exits with 1
fail(msg) ==
    [pc |-> "exited", exit_status |-> 1, stderr |-> <<msg>>]

\* a step that ends in fail(msg) on meeting the fatal condition c
Fail(c, msg) ==
    /\ pc' = fail(msg).pc
    /\ exit_status' = fail(msg).exit_status
    /\ stderr' = stderr \o fail(msg).stderr
    /\ cause' = c

\* a step that ends in an exception nothing catches: Python prints the
\* traceback to the error stream and exits with status 1
Uncaught ==
    /\ pc' = "exited"
    /\ exit_status' = 1
    /\ stderr' = Append(stderr, TRACEBACK)
    /\ UNCHANGED cause

NoLoc ==
    [f |-> 0, repo |-> <<>>, dir |-> EMPTY, target_dir |-> <<>>, extracted |-> FALSE]

\* created_dirs[repo].add(path)
AddCreated(cd, repo, path) ==
    IF \E i \in 1..Len(cd) : cd[i].repo = repo
    THEN [i \in 1..Len(cd) |->
            IF cd[i].repo = repo THEN [cd[i] EXCEPT !.paths = @ \cup {path}] ELSE cd[i]]
    ELSE Append(cd, [repo |-> repo, paths |-> {path}])

\* a start that leaves an existing compat_dir in place
remove_compat_dir_never(f, compat_dir) ==
    f

\* lines 164-166
remove_compat_dir(f, compat_dir) ==
    IF compat_dir \in f.dirs THEN RmTree(f, compat_dir) ELSE f

\* an extraction on top of what target_dir holds
clean_target_dir_never(f, target_dir) ==
    f

\* lines 179-181
clean_target_dir(f, target_dir) ==
    IF target_dir \in f.dirs THEN RmTree(f, target_dir) ELSE f

\* every file below api_type, whatever its suffix
compat_dest_dir_flat(src_file, compat_dir) ==
    JoinPath(compat_dir, <<src_file[Len(src_file) - 1]>>)

\* lines 196-197: api_type and dest_dir of src_file
compat_dest_dir(src_file, compat_dir) ==
    LET api_type == src_file[Len(src_file) - 1]
    IN  IF Suffix(Name(src_file)) = TXT
        THEN JoinPath(JoinPath(compat_dir, <<api_type>>), <<API>>)
        ELSE JoinPath(compat_dir, <<api_type>>)

\* a gantry mode that goes on to commit
exits_gantry_never(a) ==
    FALSE

\* line 203
exits_local(a) ==
    a.local_mode

\* line 208
exits_gantry(a) ==
    a.gantry_mode

\* git add of the whole repository
git_add_all(paths) ==
    {PathOf(<<".">>)}

\* line 215: the paths handed to git add
git_add_paths(paths) ==
    paths

\* line 219: the line written to the README
readme_line(a) ==
    <<"-", " ">> \o IntToStr(a.finalize_sdk) \o <<":", " ">> \o a.readme

procVars ==
    <<pc, exit_status, stderr, cause>>
loopVars ==
    <<module_names, tmpdir, loc, src_files>>
ghostVars ==
    <<rmlog, copied, processed, snap>>
constVars ==
    <<args, init_fs, call, ret>>

Init ==
    /\ pc = "check_tree"
    /\ args \in [finalize_sdk : Versions, readme : {README_TEXT},
                 amend_last_commit : BOOLEAN, modules : ModuleLists,
                 local_mode : BOOLEAN, gantry_mode : BOOLEAN]
    \* -a is read at line 222 only, which the local and gantry runs never reach
    /\ args.amend_last_commit => ~(args.local_mode \/ args.gantry_mode)
    /\ \E in_tree, prior \in BOOLEAN : fs = InitialFs(args.finalize_sdk, in_tree, prior)
    /\ init_fs = fs
    /\ readme = <<>>
    /\ mainline_modules_info = <<>>
    /\ module_names = IF args.modules = <<>> THEN <<"*">> ELSE args.modules
    /\ tmpdir = {}
    /\ loc = NoLoc
    /\ src_files = <<>>
    /\ created_dirs = <<>>
    /\ commit_i = 0
    /\ gitlog = <<>>
    /\ exit_status = -1
    /\ stderr = <<>>
    /\ cause = "none"
    /\ fetched = <<>>
    /\ rmlog = <<>>
    /\ copied = {}
    /\ processed = <<>>
    /\ snap = <<>>
    /\ call = <<>>
    /\ ret = <<>>

\* lines 150-151
CheckSourceTree ==
    /\ pc = "check_tree"
    /\ IF PathOf(BUILD_SOONG) \notin fs.dirs /\ ~args.gantry_mode
       THEN Fail("source_tree", MSG_SOURCE_TREE)
       ELSE pc' = "rm_compat" /\ UNCHANGED <<exit_status, stderr, cause>>
    /\ UNCHANGED <<fs, readme, mainline_modules_info, loopVars, created_dirs,
                   commit_i, gitlog, fetched, ghostVars, constVars>>

\* lines 161-168
RemoveCompatDir ==
    /\ pc = "rm_compat"
    /\ fs' = remove_compat_dir(fs, CompatDir(args))
    /\ rmlog' = IF CompatDir(args) \in fs.dirs
                THEN Append(rmlog, [path |-> CompatDir(args), fetches |-> Len(fetched)])
                ELSE rmlog
    /\ created_dirs' = <<>>
    /\ pc' = "fetch_info"
    /\ UNCHANGED <<readme, mainline_modules_info, loopVars, commit_i, gitlog,
                   exit_status, stderr, cause, fetched, copied, processed, snap,
                   constVars>>

\* lines 169-171, the retrieval succeeding
FetchModulesInfo ==
    /\ pc = "fetch_info"
    /\ \E m \in MANIFESTS : mainline_modules_info' = m
    /\ fetched' = Append(fetched, [what |-> "modules_info", ok |-> TRUE])
    /\ pc' = "loop"
    /\ UNCHANGED <<fs, readme, loopVars, created_dirs, commit_i, gitlog,
                   exit_status, stderr, cause, ghostVars, constVars>>

\* lines 63-69: fetch_artifact exits with a non-zero status
FetchModulesInfoFails ==
    /\ pc = "fetch_info"
    /\ ~args.local_mode
    /\ fetched' = Append(fetched, [what |-> "modules_info", ok |-> FALSE])
    /\ Fail("retrieval", MSG_MODULES_INFO)
    /\ UNCHANGED <<fs, readme, mainline_modules_info, loopVars, created_dirs,
                   commit_i, gitlog, ghostVars, constVars>>

\* line 53: out/dist/mainline-modules-info.json is missing and shutil.copy
\* raises
CopyModulesInfoRaises ==
    /\ pc = "fetch_info"
    /\ args.local_mode
    /\ fetched' = Append(fetched, [what |-> "modules_info", ok |-> FALSE])
    /\ Uncaught
    /\ UNCHANGED <<fs, readme, mainline_modules_info, loopVars, created_dirs,
                   commit_i, gitlog, ghostVars, constVars>>

AfterLoop ==
    pc = "loop" /\ tmpdir = {} /\ module_names = <<>>

\* line 174, the retrieval succeeding: local mode copies every module's
\* archives, whatever m is
FetchArtifacts ==
    /\ pc = "loop" /\ tmpdir = {} /\ module_names # <<>>
    /\ tmpdir' = IF args.local_mode THEN ArtifactsOf("*")
                 ELSE ArtifactsOf(Head(module_names))
    /\ module_names' = Tail(module_names)
    /\ fetched' = Append(fetched, [what |-> Head(module_names), ok |-> TRUE])
    /\ UNCHANGED <<fs, readme, mainline_modules_info, loc, src_files, created_dirs,
                   commit_i, gitlog, procVars, ghostVars, constVars>>

\* lines 89-95
FetchArtifactsFails ==
    /\ pc = "loop" /\ tmpdir = {} /\ module_names # <<>>
    /\ ~args.local_mode
    /\ fetched' = Append(fetched, [what |-> Head(module_names), ok |-> FALSE])
    /\ Fail("retrieval", MSG_ARTIFACT)
    /\ UNCHANGED <<fs, readme, mainline_modules_info, loopVars, created_dirs,
                   commit_i, gitlog, ghostVars, constVars>>

\* lines 175-178: iterdir yields the archives in any order
ResolveArchive ==
    /\ pc = "loop" /\ tmpdir # {}
    /\ \E f \in tmpdir :
         LET r == repo_for_sdk(ARCHIVES[f].name, mainline_modules_info, args.gantry_mode)
             dir == dir_for_sdk(ARCHIVES[f].name, args.finalize_sdk)
         IN  /\ tmpdir' = tmpdir \ {f}
             /\ IF r.failed
                THEN /\ Fail("no_mapping", MSG_NO_MAPPING)
                     /\ loc' = [NoLoc EXCEPT !.f = f]
                     /\ UNCHANGED fs
                ELSE /\ loc' = [f |-> f, repo |-> r.path, dir |-> dir,
                                target_dir |-> JoinPath(r.path, PathOf(dir)),
                                extracted |-> FALSE]
                     /\ fs' = IF args.gantry_mode THEN MakeDirs(fs, r.path) ELSE fs
                     /\ pc' = "extract"
                     /\ UNCHANGED <<exit_status, stderr, cause>>
    /\ UNCHANGED <<readme, mainline_modules_info, module_names, src_files,
                   created_dirs, commit_i, gitlog, fetched, ghostVars, constVars>>

\* lines 179-192
ExtractArchive ==
    /\ pc = "extract"
    /\ LET t == loc.target_dir
           fs1 == clean_target_dir(fs, t)
           fs2 == ExtractAll(fs1, ARCHIVES[loc.f].members, t)
           bp == JoinPath(t, <<ANDROID_BP>>)
           fs3 == Move(fs2, bp, JoinPath(t, <<ANDROID_BP_AUTO>>))
       IN  IF bp \notin DOMAIN fs2.files
           THEN /\ Uncaught
                /\ fs' = fs2
                /\ rmlog' = IF t \in fs.dirs
                            THEN Append(rmlog, [path |-> t, fetches |-> Len(fetched)])
                            ELSE rmlog
                /\ UNCHANGED <<loc, src_files, created_dirs, processed, snap>>
           ELSE /\ fs' = fs3
                /\ rmlog' = IF t \in fs.dirs
                            THEN Append(rmlog, [path |-> t, fetches |-> Len(fetched)])
                            ELSE rmlog
                /\ loc' = [loc EXCEPT !.extracted = TRUE]
                /\ created_dirs' = AddCreated(created_dirs, loc.repo, PathOf(loc.dir))
                /\ processed' = Append(processed, loc.f)
                /\ snap' = IF loc.f \in DOMAIN snap THEN snap
                           ELSE (loc.f :> Tree(fs3, t)) @@ snap
                /\ \E txts \in Orderings(Glob(fs3, t, TXT)),
                      jars \in Orderings(Glob(fs3, t, JAR)) :
                        /\ src_files' = txts \o jars
                        /\ pc' = IF txts \o jars = <<>> THEN "loop" ELSE "copy"
                /\ UNCHANGED <<exit_status, stderr, cause>>
    /\ UNCHANGED <<readme, mainline_modules_info, module_names, tmpdir, commit_i,
                   gitlog, fetched, copied, constVars>>

\* lines 193-201, one turn of the inner loop
CopyCompatFile ==
    /\ pc = "copy"
    /\ LET src_file == Head(src_files)
           dest_dir == compat_dest_dir(src_file, CompatDir(args))
           dest_file == maybe_tweak_compat_stem(JoinPath(dest_dir, <<Name(src_file)>>))
           fs1 == MakeDirs(fs, dest_dir)
           repo == COMPAT_REPO(args.gantry_mode)
       IN  IF is_ignored(src_file)
           THEN /\ pc' = IF Tail(src_files) = <<>> THEN "loop" ELSE "copy"
                /\ UNCHANGED <<fs, created_dirs, copied, exit_status, stderr, cause>>
           ELSE IF ~ValidName(Name(dest_file))
           THEN /\ Uncaught
                /\ UNCHANGED <<fs, created_dirs, copied>>
           ELSE /\ fs' = Copy(fs1, src_file, dest_file)
                /\ created_dirs' = AddCreated(created_dirs, repo, RelativeTo(dest_dir, repo))
                /\ copied' = copied \cup {[src |-> RelativeTo(src_file, loc.target_dir),
                                           archive |-> loc.f,
                                           dest |-> dest_file]}
                /\ pc' = IF Tail(src_files) = <<>> THEN "loop" ELSE "copy"
                /\ UNCHANGED <<exit_status, stderr, cause>>
    /\ src_files' = Tail(src_files)
    /\ UNCHANGED <<readme, mainline_modules_info, module_names, tmpdir, loc,
                   commit_i, gitlog, fetched, rmlog, processed, snap, constVars>>

\* lines 203-205
LocalExit ==
    /\ AfterLoop
    /\ exits_local(args)
    /\ pc' = "exited"
    /\ exit_status' = 0
    /\ UNCHANGED <<fs, readme, mainline_modules_info, loopVars, created_dirs,
                   commit_i, gitlog, stderr, cause, fetched, ghostVars, constVars>>

\* lines 207-209
GantryExit ==
    /\ AfterLoop
    /\ ~exits_local(args)
    /\ exits_gantry(args)
    /\ pc' = "exited"
    /\ exit_status' = 0
    /\ UNCHANGED <<fs, readme, mainline_modules_info, loopVars, created_dirs,
                   commit_i, gitlog, stderr, cause, fetched, ghostVars, constVars>>

\* the for loop of line 213 moving to entry i of created_dirs; the script
\* ends, with status 0, when there is none
CommitLoopAt(i) ==
    /\ commit_i' = i
    /\ IF i > Len(created_dirs)
       THEN pc' = "exited" /\ exit_status' = 0
       ELSE pc' = "git_add" /\ UNCHANGED exit_status

\* lines 211-212
RepoStart ==
    /\ AfterLoop
    /\ ~exits_local(args)
    /\ ~exits_gantry(args)
    /\ gitlog' = Append(gitlog, [cmd |-> "repo start", repo |-> <<>>,
                                 paths |-> {created_dirs[i].repo : i \in 1..Len(created_dirs)}])
    /\ CommitLoopAt(1)
    /\ UNCHANGED <<fs, readme, mainline_modules_info, loopVars, created_dirs,
                   stderr, cause, fetched, ghostVars, constVars>>

\* lines 214-215
GitAdd ==
    /\ pc = "git_add"
    /\ gitlog' = Append(gitlog, [cmd |-> "git add", repo |-> created_dirs[commit_i].repo,
                                 paths |-> git_add_paths(created_dirs[commit_i].paths)])
    /\ pc' = IF created_dirs[commit_i].repo = COMPAT_REPO(args.gantry_mode)
             THEN "readme" ELSE "commit"
    /\ UNCHANGED <<fs, readme, mainline_modules_info, loopVars, created_dirs,
                   commit_i, exit_status, stderr, cause, fetched, ghostVars, constVars>>

\* lines 217-219
ReadmeAppend ==
    /\ pc = "readme"
    /\ readme' = Append(readme, readme_line(args))
    /\ pc' = "readme_add"
    /\ UNCHANGED <<fs, mainline_modules_info, loopVars, created_dirs, commit_i,
                   gitlog, exit_status, stderr, cause, fetched, ghostVars, constVars>>

\* line 220
ReadmeAdd ==
    /\ pc = "readme_add"
    /\ gitlog' = Append(gitlog, [cmd |-> "git add", repo |-> created_dirs[commit_i].repo,
                                 paths |-> {COMPAT_README}])
    /\ pc' = "commit"
    /\ UNCHANGED <<fs, readme, mainline_modules_info, loopVars, created_dirs,
                   commit_i, exit_status, stderr, cause, fetched, ghostVars, constVars>>

\* lines 229-230
Commit ==
    /\ pc = "commit"
    /\ ~args.amend_last_commit
    /\ gitlog' = Append(gitlog, [cmd |-> "git commit", repo |-> created_dirs[commit_i].repo,
                                 paths |-> {}])
    /\ CommitLoopAt(commit_i + 1)
    /\ UNCHANGED <<fs, readme, mainline_modules_info, loopVars, created_dirs,
                   stderr, cause, fetched, ghostVars, constVars>>

\* lines 222-225 and 228: git log -1 shows a Change-Id
CommitAmend ==
    /\ pc = "commit"
    /\ args.amend_last_commit
    /\ gitlog' = gitlog \o
         << [cmd |-> "git log", repo |-> created_dirs[commit_i].repo, paths |-> {}],
            [cmd |-> "git commit --amend", repo |-> created_dirs[commit_i].repo,
             paths |-> {}] >>
    /\ CommitLoopAt(commit_i + 1)
    /\ UNCHANGED <<fs, readme, mainline_modules_info, loopVars, created_dirs,
                   stderr, cause, fetched, ghostVars, constVars>>

\* lines 222-227: git log -1 shows no Change-Id
AmendWithoutChangeId ==
    /\ pc = "commit"
    /\ args.amend_last_commit
    /\ gitlog' = Append(gitlog, [cmd |-> "git log", repo |-> created_dirs[commit_i].repo,
                                 paths |-> {}])
    /\ Fail("change_id", MSG_CHANGE_ID)
    /\ UNCHANGED <<fs, readme, mainline_modules_info, loopVars, created_dirs,
                   commit_i, fetched, ghostVars, constVars>>

\* lines 211-230: repo or git exits with a non-zero status, check_output
\* raises CalledProcessError and nothing catches it
CommandRaises ==
    /\ \/ AfterLoop /\ ~exits_local(args) /\ ~exits_gantry(args)
       \/ pc \in {"git_add", "readme_add", "commit"}
    /\ Uncaught
    /\ UNCHANGED <<fs, readme, mainline_modules_info, loopVars, created_dirs,
                   commit_i, gitlog, fetched, ghostVars, constVars>>

Next ==
    \/ CheckSourceTree
    \/ RemoveCompatDir
    \/ FetchModulesInfo
    \/ FetchModulesInfoFails
    \/ CopyModulesInfoRaises
    \/ FetchArtifacts
    \/ FetchArtifactsFails
    \/ ResolveArchive
    \/ ExtractArchive
    \/ CopyCompatFile
    \/ LocalExit
    \/ GantryExit
    \/ RepoStart
    \/ GitAdd
    \/ ReadmeAppend
    \/ ReadmeAdd
    \/ Commit
    \/ CommitAmend
    \/ AmendWithoutChangeId
    \/ CommandRaises

Spec ==
    Init /\ [][Next]_vars

(***************************************************************************)
(* The helpers called on their own, on inputs put together from pieces.    *)
(***************************************************************************)
F_TEST ==
    <<"t","e","s","t","-">>
F_EXPORTS ==
    <<"e","x","p","o","r","t","s">>
F_SDK ==
    <<"-","s","d","k">>
F_ART_MODULE ==
    <<"a","r","t",".","m","o","d","u","l","e">>
F_PUBLIC_API ==
    <<".","p","u","b","l","i","c",".","a","p","i">>
F_CONSCRYPT_MODULE ==
    <<"c","o","n","s","c","r","y","p","t",".","m","o","d","u","l","e">>
F_ST ==
    <<"-","s","t">>
F_UBS ==
    <<"u","b","s">>

RECURSIVE Concats(_, _)
\* the strings made of at most n pieces
Concats(pieces, n) ==
    IF n = 0 THEN {EMPTY}
    ELSE LET shorter == Concats(pieces, n - 1)
         IN  shorter \cup {s \o x : s \in shorter, x \in pieces}

MaxDirPieces ==
    3
MaxNamePieces ==
    3
MaxEntries ==
    2
MaxStemPieces ==
    3
MaxTweaks ==
    2

DirNames ==
    Concats({SDK_FOO, <<"-">>, TEST_EXPORTS, HOST_EXPORTS, F_TEST, F_EXPORTS}, MaxDirPieces)

DirVersions ==
    {5, 12}

SdkFileNames ==
    Concats({SDK_FOO_SHORT, F_SDK, SDK_BAR}, MaxNamePieces)

\* the manifests of at most MaxEntries modules
ManifestsUpTo(n) ==
    UNION {
      {[i \in 1..k |-> [module |-> IntToStr(i), sdk_name |-> e[i][1],
                        module_sdk_project |-> e[i][2]]] :
          e \in [1..k -> {SDK_FOO, SDK_FOO_SHORT, SDK_BAR} \X {P_FOO, P_BAR}]}
      : k \in 0..n}

Stems ==
    Concats({F_ART_MODULE, F_PUBLIC_API, F_CONSCRYPT_MODULE, STUBS, F_ST, F_UBS,
             SDK_FOO_SHORT}, MaxStemPieces)

\* no run of the script is going on
NoRun ==
    /\ args = [finalize_sdk |-> 0, readme |-> EMPTY, amend_last_commit |-> FALSE,
               modules |-> <<>>, local_mode |-> FALSE, gantry_mode |-> FALSE]
    /\ fs = [files |-> <<>>, dirs |-> {}]
    /\ init_fs = fs
    /\ readme = <<>>
    /\ mainline_modules_info = <<>>
    /\ module_names = <<>>
    /\ tmpdir = {}
    /\ loc = NoLoc
    /\ src_files = <<>>
    /\ created_dirs = <<>>
    /\ commit_i = 0
    /\ gitlog = <<>>
    /\ exit_status = -1
    /\ stderr = <<>>
    /\ cause = "none"
    /\ fetched = <<>>
    /\ rmlog = <<>>
    /\ copied = {}
    /\ processed = <<>>
    /\ snap = <<>>

runVars ==
    <<args, fs, readme, mainline_modules_info, module_names, tmpdir, loc,
      src_files, created_dirs, commit_i, gitlog, exit_status, stderr, cause,
      fetched, rmlog, copied, processed, snap, init_fs>>

InitDir ==
    /\ NoRun
    /\ pc = "call"
    /\ call \in [filename : DirNames, version : DirVersions]
    /\ ret = <<>>

\* dir_for_sdk(filename, version)
CallDirForSdk ==
    /\ pc = "call"
    /\ ret' = dir_for_sdk(call.filename, call.version)
    /\ pc' = "returned"
    /\ UNCHANGED <<call, runVars>>

SpecDir ==
    InitDir /\ [][CallDirForSdk]_vars

InitRepo ==
    /\ NoRun
    /\ pc = "call"
    /\ call \in [sdk_filename : SdkFileNames,
                 mainline_modules_info : ManifestsUpTo(MaxEntries),
                 gantry_mode : BOOLEAN]
    /\ ret = <<>>

\* repo_for_sdk(sdk_filename, mainline_modules_info) under args.gantry_mode
CallRepoForSdk ==
    /\ pc = "call"
    /\ ret' = repo_for_sdk(call.sdk_filename, call.mainline_modules_info, call.gantry_mode)
    /\ pc' = "returned"
    /\ UNCHANGED <<call, runVars>>

SpecRepo ==
    InitRepo /\ [][CallRepoForSdk]_vars

InitStem ==
    /\ NoRun
    /\ pc = "call"
    /\ call \in [stem : Stems]
    /\ ret = <<call.stem>>

\* the rewriting applied to the stem it returned last: ret holds the stem
\* and what each application made of it
CallTweakStem ==
    /\ pc = "call"
    /\ Len(ret) <= MaxTweaks
    /\ ret' = Append(ret, TweakStem(ret[Len(ret)]))
    /\ UNCHANGED <<pc, call, runVars>>

SpecStem ==
    InitStem /\ [][CallTweakStem]_vars

(***************************************************************************)
(* The properties.                                                         *)
(***************************************************************************)

\* the entries of manifest m whose sdk_name occurs in the file name f
Matches(f, m) ==
    {i \in 1..Len(m) : IsSubstr(m[i].sdk_name, f)}

Least(S) ==
    CHOOSE i \in S : \A j \in S : i <= j

\* C1, as stated: repo_for_sdk(f, M) returns the module_sdk_project of the
\* first entry of M, in the order of the manifest, whose sdk_name is a
\* substring of f, and fails when no entry's is.
C1_ReturnsProjectOfFirstMatch ==
    pc = "returned" =>
        LET m == call.mainline_modules_info
            hits == Matches(call.sdk_filename, m)
        IN  IF hits = {} THEN ret.failed
            ELSE ~ret.failed /\ ret.path = PathOf(m[Least(hits)].module_sdk_project)

\* C1, amended: repo_for_sdk(f, M) fails when no entry's sdk_name is a
\* substring of f; otherwise it returns the module_sdk_project of the first
\* such entry, as a path, and in gantry mode that path below /tmp.
C1_ReturnsProjectOfFirstMatchBelowTmpInGantryMode ==
    pc = "returned" =>
        LET m == call.mainline_modules_info
            hits == Matches(call.sdk_filename, m)
            project == PathOf(m[Least(hits)].module_sdk_project)
        IN  IF hits = {} THEN ret.failed
            ELSE /\ ~ret.failed
                 /\ ret.path = IF call.gantry_mode
                               THEN << <<"/">>, <<"t","m","p">> >> \o project
                               ELSE project

\* several entries match, with different projects, and the call returned
C1_Witness ==
    /\ pc = "returned"
    /\ call.gantry_mode
    /\ ~ret.failed
    /\ \E i, j \in Matches(call.sdk_filename, call.mainline_modules_info) :
         call.mainline_modules_info[i].module_sdk_project
            # call.mainline_modules_info[j].module_sdk_project

ContainsNone(stem) ==
    ~IsSubstr(ART_API, stem) /\ ~IsSubstr(CONSCRYPT_API, stem) /\ ~IsSubstr(STUBS, stem)

RuleArt(stem) ==
    Replace(stem, ART_API, ART)
RuleConscrypt(stem) ==
    Replace(stem, CONSCRYPT_API, CONSCRYPT)
RuleStubs(stem) ==
    Replace(stem, STUBS, EMPTY)

\* what the three rules make of a stem in each of the six orders
AllOrders(stem) ==
    { RuleStubs(RuleConscrypt(RuleArt(stem))), RuleConscrypt(RuleStubs(RuleArt(stem))),
      RuleStubs(RuleArt(RuleConscrypt(stem))), RuleArt(RuleStubs(RuleConscrypt(stem))),
      RuleConscrypt(RuleArt(RuleStubs(stem))), RuleArt(RuleConscrypt(RuleStubs(stem))) }

\* C7, as stated: the rewriting is idempotent, the three rules give the same
\* stem in every order, and a stem that contains none of the three
\* substrings is returned unchanged.
C7_IdempotentAndOrderIndependent ==
    \A k \in 1..(Len(ret) - 1) :
        /\ k + 2 <= Len(ret) => ret[k + 2] = ret[k + 1]
        /\ AllOrders(ret[k]) = {ret[k + 1]}
        /\ ContainsNone(ret[k]) => ret[k + 1] = ret[k]

\* C7, amended: a stem that contains none of the three substrings is
\* returned unchanged; rewriting a rewritten stem changes nothing exactly when
\* the rewritten stem contains none of the three substrings, and then the
\* three rules give that stem in every order.
C7_IdempotentWhereTheResultHoldsNoMatch ==
    \A k \in 1..(Len(ret) - 1) :
        /\ ContainsNone(ret[k]) => ret[k + 1] = ret[k]
        /\ k + 2 <= Len(ret) => (ret[k + 2] = ret[k + 1] <=> ContainsNone(ret[k + 1]))
        /\ ContainsNone(ret[k + 1]) => AllOrders(ret[k]) = {ret[k + 1]}

\* a stem that two of the rules rewrite, rewritten twice
C7_Witness ==
    /\ Len(ret) >= 3
    /\ IsSubstr(ART_API, ret[1])
    /\ IsSubstr(STUBS, ret[1])
    /\ ContainsNone(ret[2])
    /\ ret[3] = ret[2]

\* C9: dir_for_sdk returns '<version>/test-exports' if the file name contains
\* 'test-exports', else '<version>/host-exports' if it contains
\* 'host-exports', else '<version>'.
C9_DirForSdk ==
    pc = "returned" =>
        LET v == IntToStr(call.version)
        IN  ret = IF IsSubstr(TEST_EXPORTS, call.filename)
                  THEN v \o <<"/">> \o TEST_EXPORTS
                  ELSE IF IsSubstr(HOST_EXPORTS, call.filename)
                       THEN v \o <<"/">> \o HOST_EXPORTS
                       ELSE v

\* a file name with both substrings, 'host-exports' first
C9_Witness ==
    /\ pc = "returned"
    /\ call.filename = HOST_EXPORTS \o <<"-">> \o TEST_EXPORTS
    /\ call.version = 12
    /\ ret = <<"1", "2", "/">> \o TEST_EXPORTS

\* the archives extracted so far
Extracted ==
    {processed[i] : i \in 1..Len(processed)}

\* the repository the first matching entry of the loaded manifest names for
\* archive f, below /tmp in gantry mode
FirstProject(f) ==
    LET hits == Matches(ARCHIVES[f].name, mainline_modules_info)
        project == PathOf(mainline_modules_info[Least(hits)].module_sdk_project)
    IN  IF args.gantry_mode THEN << <<"/">>, <<"t","m","p">> >> \o project ELSE project

\* C2, as stated: the name of every archive that is extracted contains the
\* sdk_name of exactly one manifest entry; an archive whose name contains
\* the sdk_name of no entry or of several is not extracted.
C2_ExtractedMatchExactlyOne ==
    \A f \in Extracted :
        Cardinality(Matches(ARCHIVES[f].name, mainline_modules_info)) = 1

\* C2, amended: the name of every archive that is extracted contains the
\* sdk_name of at least one manifest entry, and the archive goes to the
\* repository of the first such entry; an archive whose name contains no
\* entry's sdk_name ends the run with status 1 and is not extracted.
C2_ExtractedMatchAtLeastOne ==
    /\ \A f \in Extracted : Matches(ARCHIVES[f].name, mainline_modules_info) # {}
    /\ loc.f # 0 /\ Matches(ARCHIVES[loc.f].name, mainline_modules_info) = {}
         => /\ pc = "exited" /\ exit_status = 1 /\ cause = "no_mapping"
            /\ ~loc.extracted
            /\ Len(processed) > 0 => processed[Len(processed)] # loc.f
    /\ loc.f # 0 /\ Matches(ARCHIVES[loc.f].name, mainline_modules_info) # {}
         => loc.repo = FirstProject(loc.f)

\* an archive with two matching entries was extracted, then one with none
\* ended the run
C2_Witness ==
    /\ cause = "no_mapping"
    /\ \E f \in Extracted :
         Cardinality(Matches(ARCHIVES[f].name, mainline_modules_info)) = 2

\* the members of an archive with Android.bp renamed to Android.bp.auto
RenamedMembers(members) ==
    [p \in ((DOMAIN members) \ {<<ANDROID_BP>>}) \cup {<<ANDROID_BP_AUTO>>} |->
        IF p = <<ANDROID_BP_AUTO>> THEN members[<<ANDROID_BP>>] ELSE members[p]]

\* C3: once an archive has been processed, its destination directory holds
\* exactly the archive's contents, with Android.bp renamed to
\* Android.bp.auto, whatever the directory held before; and processing the
\* archive again leaves what processing it the first time left.
C3_DirectoryHoldsExactlyTheArchive ==
    loc.extracted =>
        /\ Tree(fs, loc.target_dir) = RenamedMembers(ARCHIVES[loc.f].members)
        /\ Tree(fs, loc.target_dir) = snap[loc.f]

\* an archive has been processed a second time, into a directory that held
\* other files before the run and, since the first time, another archive's
C3_Witness ==
    /\ loc.extracted
    /\ Cardinality({i \in 1..Len(processed) : processed[i] = loc.f}) = 2
    /\ loc.target_dir \in init_fs.dirs
    /\ \E i, j, k \in 1..Len(processed) :
         /\ i < j /\ j < k
         /\ processed[i] = 1 /\ processed[j] = 2 /\ processed[k] = 1
         /\ loc.f = 1

NoCommitMode ==
    args.local_mode \/ args.gantry_mode

\* C4: in local mode and in gantry mode no repo or git command is run and
\* no line is appended to the README, and once the loop over the archives has
\* finished the script exits with status 0.
C4_NoVersionControlInLocalAndGantryMode ==
    /\ [](NoCommitMode => gitlog = <<>> /\ readme = <<>>)
    /\ [][NoCommitMode /\ AfterLoop => pc' = "exited" /\ exit_status' = 0]_vars

\* a gantry run that extracted the three archives and has exited
C4_Witness ==
    /\ args.gantry_mode /\ ~args.local_mode
    /\ pc = "exited" /\ exit_status = 0
    /\ Extracted = {1, 2, 3}
    /\ copied # {}

\* the message fail() prints for each fatal condition
MessageOf(c) ==
    CASE c = "source_tree" -> {MSG_SOURCE_TREE}
      [] c = "retrieval" -> {MSG_MODULES_INFO, MSG_ARTIFACT}
      [] c = "no_mapping" -> {MSG_NO_MAPPING}
      [] c = "change_id" -> {MSG_CHANGE_ID}

\* C5: an archive name that matches no manifest entry, a failure of the
\* retrieval tool, a start outside a source tree when not in gantry mode,
\* and an amend without a Change-Id in the log each end the run with
\* status 1 and a message on the error stream; nothing is retried and no
\* later step is taken.
C5_FatalConditionsEndTheRun ==
    /\ [](/\ loc.f # 0 /\ Matches(ARCHIVES[loc.f].name, mainline_modules_info) = {}
             => cause = "no_mapping"
          /\ fetched # <<>> /\ ~fetched[Len(fetched)].ok /\ ~args.local_mode
             => cause = "retrieval"
          /\ pc # "check_tree" /\ PathOf(BUILD_SOONG) \notin init_fs.dirs
                /\ ~args.gantry_mode
             => cause = "source_tree"
          /\ gitlog # <<>> /\ gitlog[Len(gitlog)].cmd = "git log"
             => cause = "change_id"
          /\ cause # "none"
             => /\ pc = "exited"
                /\ exit_status = 1
                /\ stderr # <<>>
                /\ stderr[Len(stderr)] \in MessageOf(cause))
    /\ [][cause = "none"]_vars

\* an amend that found no Change-Id, in the second repository
C5_Witness ==
    /\ cause = "change_id"
    /\ exit_status = 1
    /\ commit_i = 2

\* the paths handed to git add in repository r
AddedPaths(r) ==
    UNION {gitlog[k].paths : k \in {n \in 1..Len(gitlog) :
                                      gitlog[n].cmd = "git add" /\ gitlog[n].repo = r}}

Committed(r) ==
    \E k \in 1..Len(gitlog) :
        gitlog[k].cmd \in {"git commit", "git commit --amend"} /\ gitlog[k].repo = r

CreatedRepos ==
    {created_dirs[i].repo : i \in 1..Len(created_dirs)}

\* C6: in commit mode, for every repository of created_dirs, the paths
\* handed to git add in it are exactly the paths recorded for it, plus the
\* README if and only if it is the compatibility repository; exactly one
\* line '- <version>: <text>' is appended to the README in that case and
\* none otherwise.
C6_GitAddStagesExactlyTheRecordedPaths ==
    ~NoCommitMode =>
        /\ \A i \in 1..Len(created_dirs) :
             Committed(created_dirs[i].repo) =>
                AddedPaths(created_dirs[i].repo) =
                    created_dirs[i].paths \cup
                    (IF created_dirs[i].repo = PathOf(COMPAT_REPO_STR)
                     THEN {PathOf(COMPAT_README_STR)} ELSE {})
        /\ \A k \in 1..Len(gitlog) :
             gitlog[k].cmd = "git add" => gitlog[k].repo \in CreatedRepos
        /\ pc = "exited" /\ exit_status = 0 => \A r \in CreatedRepos : Committed(r)
        /\ \A i \in 1..Len(readme) :
             readme[i] = <<"-", " ">> \o IntToStr(args.finalize_sdk) \o <<":", " ">>
                         \o args.readme
        /\ Len(readme) <= 1
        /\ Committed(PathOf(COMPAT_REPO_STR)) => Len(readme) = 1
        /\ PathOf(COMPAT_REPO_STR) \notin CreatedRepos => readme = <<>>

\* a commit run over three repositories, the compatibility repository among
\* them, that has finished
C6_Witness ==
    /\ ~NoCommitMode
    /\ pc = "exited" /\ exit_status = 0
    /\ Len(created_dirs) = 3
    /\ \E i \in 1..Len(created_dirs) : Cardinality(created_dirs[i].paths) >= 2
    /\ Len(readme) = 1

\* the archives whose inner loop over src_files has finished
Projected ==
    {processed[i] : i \in {n \in 1..Len(processed) : n < Len(processed) \/ pc # "copy"}}

\* the members of archive f at sdk_library/<api_type>/<name> with extension
\* .txt or .jar
ApiMembers ==
    [f \in 1..Len(ARCHIVES) |->
        {m \in DOMAIN ARCHIVES[f].members :
            /\ Len(m) = 3
            /\ m[1] = SDK_LIBRARY
            /\ Suffix(m[3]) \in {TXT, JAR}}]

AllApiMembers ==
    UNION {ApiMembers[f] : f \in 1..Len(ARCHIVES)}

\* the members whose stem starts with one of the two ignored prefixes
IgnoredMembers ==
    {m \in AllApiMembers :
        StartsWith(Stem(m[3]), BAD_INTRA) \/ StartsWith(Stem(m[3]), BAD_PLATFORM)}

\* the members glob's * does not match
HiddenMembers ==
    {m \in AllApiMembers : Hidden(m[2]) \/ Hidden(m[3])}

\* <compat_dir>/<api_type>/api/<rewritten name> for a .txt member m,
\* <compat_dir>/<api_type>/<rewritten name> for a .jar member, by mode and
\* version
DestTable ==
    [g \in BOOLEAN |-> [v \in Versions |-> [m \in AllApiMembers |->
        PathOf(IF g THEN TMP_PREFIX \o COMPAT_REPO_STR ELSE COMPAT_REPO_STR)
        \o PathOf(EXTENSIONS_PREFIX) \o <<IntToStr(v), m[2]>>
        \o (IF Suffix(m[3]) = TXT THEN <<API>> ELSE <<>>)
        \o <<RuleStubs(RuleConscrypt(RuleArt(Stem(m[3])))) \o Suffix(m[3])>>]]]

ExpectedDest(m) ==
    DestTable[args.gantry_mode][args.finalize_sdk][m]

\* what the files below the compatibility directory hold
CompatContents ==
    {fs.files[p] : p \in {q \in DOMAIN fs.files :
                            \E cd \in {CompatDir(args)} : IsPrefix(cd, q)}}

\* the copy of member m is in place: its destination holds the content of
\* a member, of an archive extracted so far, with that destination
CopyInPlace(m) ==
    \E dest \in {ExpectedDest(m)} :
        /\ dest \in DOMAIN fs.files
        /\ \E g \in Extracted : \E n \in ApiMembers[g] :
             ExpectedDest(n) = dest /\ fs.files[dest] = ARCHIVES[g].members[n]

\* C8, as stated: every extracted file sdk_library/<api_type>/<name> with
\* extension .txt or .jar is never copied if its stem starts with one of the
\* two ignored prefixes, and is otherwise copied to
\* <compat_dir>/<api_type>/api/<rewritten name> (.txt) or
\* <compat_dir>/<api_type>/<rewritten name> (.jar).
C8_EveryApiFileIsCopiedOrIgnored ==
    /\ \A f \in Extracted : \A m \in ApiMembers[f] \cap IgnoredMembers :
         ARCHIVES[f].members[m] \notin CompatContents
    /\ \A f \in Projected : \A m \in ApiMembers[f] \ IgnoredMembers :
         CopyInPlace(m)

\* C8, amended: as stated, for the files whose name and api_type directory
\* do not start with a dot; the others are not copied.
C8_EveryVisibleApiFileIsCopiedOrIgnored ==
    /\ \A f \in Extracted : \A m \in ApiMembers[f] \cap (IgnoredMembers \cup HiddenMembers) :
         ARCHIVES[f].members[m] \notin CompatContents
    /\ \A f \in Projected : \A m \in ApiMembers[f] \ (IgnoredMembers \cup HiddenMembers) :
         CopyInPlace(m)

\* the three archives have been projected: copies, ignored files and a
\* hidden file
C8_Witness ==
    /\ Projected = {1, 2, 3}
    /\ Cardinality(copied) >= 4
    /\ \E c \in copied : c.dest = ExpectedDest(<<SDK_LIBRARY, SYSTEM, N_ART_TXT>>)

\* the rmtree calls that removed the compatibility directory
CompatRemovals ==
    {k \in 1..Len(rmlog) : \E cd \in {CompatDir(args)} : IsPrefix(rmlog[k].path, cd)}

PastRemoval ==
    pc \notin {"check_tree", "rm_compat"} /\ cause # "source_tree"

====
